---- MODULE Spec2Model ----
(***************************************************************************)
(* A model of the dex_arbitrage_router program (src/lib.rs): the router    *)
(* state singleton with initialize and toggle_pause, and the batch         *)
(* executor execute_arbitrage_batch with its account slicing, its inline   *)
(* account resolution for the Pump.fun venue, the construction of the buy  *)
(* and sell instructions and the two invocations per leg.                  *)
(*                                                                         *)
(* A public key is a sequence of strings; a derived address is the         *)
(* sequence of its seeds followed by the deriving program, so that two     *)
(* derivations agree exactly when their seeds and program agree.           *)
(***************************************************************************)
EXTENDS Integers, Sequences, FiniteSets, TLC

\* ------------------------------------------------------------------ bounds

\* The number of legs of a batch: arbitrages: [ArbitrageParams; 4].
NumLegs == 4

\* At most this many legs of a submitted batch differ from the plain leg
\* (supported venues, a fully populated sub-range, the exact count).
MaxOdd == 1

\* ------------------------------------------------------------- public keys

pump_program_id == <<"6EF8rrecthR5Dkzon8Nwu78hRvfCKubJ14M5uBEwF6P">>

fee_recipient == <<"CebN5WGQ4jvEPvsVU4EoHEpgzq1VV7AbicfhtW4xC9iM">>

\* anchor_spl::token::ID, the owner of every token account.
TokenProgramId == <<"TokenkegQfeZyiNwAJbNbGKPFXCWuBvf9Ss623VQ5DA">>

AssociatedTokenProgramId == <<"ATokenGPvbdGVxr1b2hvZbsiqW5xWH25efTNsLJA8knL">>

SystemProgramId == <<"11111111111111111111111111111111">>

RentSysvarId == <<"SysvarRent111111111111111111111111111111111">>

\* Pubkey::find_program_address(seeds, program_id): the address only (the
\* bump is dropped at every call site).
find_program_address(seeds, program_id) == <<"pda">> \o seeds \o program_id

\* anchor_spl::associated_token::get_associated_token_address(wallet, mint).
get_associated_token_address(wallet, mint) ==
  find_program_address(wallet \o TokenProgramId \o mint, AssociatedTokenProgramId)

expected_global == find_program_address(<<"global">>, pump_program_id)

expected_bonding_curve(token_mint) ==
  find_program_address(<<"bonding-curve">> \o token_mint, pump_program_id)

expected_event_authority ==
  find_program_address(<<"__event_authority">>, pump_program_id)

\* ---------------------------------------------------------------- accounts

NoKey == <<>>

\* The data of an account that is no token account.
NoData == [len_ok |-> FALSE, init |-> FALSE, owner |-> NoKey, mint |-> NoKey]

\* An account handle (AccountInfo): its key, the program owning it, and of
\* its data what the resolver reads: whether data_len() == TokenAccount::LEN,
\* whether TokenAccount::try_deserialize succeeds, and the owner and mint
\* fields of the deserialized token account.
PlainAccount(key) == [key |-> key, owner |-> SystemProgramId, data |-> NoData]

TokenAccountInfo(key, ta_owner, ta_mint) ==
  [key |-> key, owner |-> TokenProgramId,
   data |-> [len_ok |-> TRUE, init |-> TRUE, owner |-> ta_owner, mint |-> ta_mint]]

\* Owned by the token program, of a token account's length, never initialized.
UninitTokenAccountInfo(key) ==
  [key |-> key, owner |-> TokenProgramId,
   data |-> [len_ok |-> TRUE, init |-> FALSE, owner |-> NoKey, mint |-> NoKey]]

\* DexType
Meteora == "Meteora"
PumpFun == "PumpFun"
DexType == {Meteora, PumpFun}

\* Option<&AccountInfo>: None is the empty sequence, Some(a) is <<a>>.
None == <<>>
Some(a) == <<a>>

\* ---------------------------------------------------------------- resolver

\* The seven Option locals of the scan, all None before the loop.
NoneFound ==
  [pump_program_account |-> None, global_account |-> None,
   fee_recipient_account |-> None, mint_account |-> None,
   bonding_curve_account |-> None, user_token_account |-> None,
   event_authority_account |-> None]

\* The structural test of the trader's token account.
IsUserTokenAccount(acc_info, arbitrage, user_key) ==
  /\ acc_info.owner = TokenProgramId
  /\ acc_info.data.len_ok
  /\ acc_info.data.init
  /\ acc_info.data.owner = user_key
  /\ acc_info.data.mint = arbitrage.token_mint

\* One iteration of the scan loop: every test that matches overwrites its
\* local with the handle at hand.
ScanStep(found, acc_info, arbitrage, user_key) ==
  [pump_program_account |->
     IF acc_info.key = pump_program_id
       THEN Some(acc_info) ELSE found.pump_program_account,
   global_account |->
     IF acc_info.key = expected_global
       THEN Some(acc_info) ELSE found.global_account,
   fee_recipient_account |->
     IF acc_info.key = fee_recipient
       THEN Some(acc_info) ELSE found.fee_recipient_account,
   mint_account |->
     IF acc_info.key = arbitrage.token_mint
       THEN Some(acc_info) ELSE found.mint_account,
   bonding_curve_account |->
     IF acc_info.key = expected_bonding_curve(arbitrage.token_mint)
       THEN Some(acc_info) ELSE found.bonding_curve_account,
   user_token_account |->
     IF IsUserTokenAccount(acc_info, arbitrage, user_key)
       THEN Some(acc_info) ELSE found.user_token_account,
   event_authority_account |->
     IF acc_info.key = expected_event_authority
       THEN Some(acc_info) ELSE found.event_authority_account]

\* for acc_info in arbitrage_accounts_slice { ... }, front to back.
RECURSIVE ScanAccounts(_, _, _, _)
ScanAccounts(found, arbitrage_accounts_slice, arbitrage, user_key) ==
  IF arbitrage_accounts_slice = <<>>
    THEN found
    ELSE ScanAccounts(
           ScanStep(found, Head(arbitrage_accounts_slice), arbitrage, user_key),
           Tail(arbitrage_accounts_slice), arbitrage, user_key)

\* FindAssociatedBondingCurve with the break outside the test: only the
\* first handle of the slice is examined.
FindAssociatedBondingCurve_BreakEarly(arbitrage_accounts_slice, expected_ata) ==
  IF arbitrage_accounts_slice # <<>> /\ Head(arbitrage_accounts_slice).key = expected_ata
    THEN Some(Head(arbitrage_accounts_slice))
    ELSE None

\* The second loop: the first handle whose key is expected_ata, then break.
RECURSIVE FindAssociatedBondingCurve(_, _)
FindAssociatedBondingCurve(arbitrage_accounts_slice, expected_ata) ==
  IF arbitrage_accounts_slice = <<>>
    THEN None
    ELSE IF Head(arbitrage_accounts_slice).key = expected_ata
           THEN Some(Head(arbitrage_accounts_slice))
           ELSE FindAssociatedBondingCurve(Tail(arbitrage_accounts_slice), expected_ata)

\* CheckOrder with the event authority checked first.
CheckOrder_EventFirst ==
  <<"event_authority_account", "pump_program_account", "global_account",
    "fee_recipient_account", "mint_account", "bonding_curve_account",
    "user_token_account">>

\* The order of the ok_or(..)? checks after the scan.
CheckOrder ==
  <<"pump_program_account", "global_account", "fee_recipient_account",
    "mint_account", "bonding_curve_account", "user_token_account",
    "event_authority_account">>

\* NotFoundError with one generic code for every slot.
NotFoundError_Generic(slot) == "AccountNotFound"

\* The error each ok_or names.
NotFoundError(slot) ==
  CASE slot = "pump_program_account" -> "AccountNotFound"
    [] slot = "global_account" -> "PDAAccountNotFound"
    [] slot = "fee_recipient_account" -> "AccountNotFound"
    [] slot = "mint_account" -> "MintAccountNotFound"
    [] slot = "bonding_curve_account" -> "PDAAccountNotFound"
    [] slot = "user_token_account" -> "TokenAccountNotFound"
    [] slot = "event_authority_account" -> "PDAAccountNotFound"
    [] slot = "associated_bonding_curve_account" -> "AccountNotFound"

\* The first of the seven checks that fails, or "none".
FirstMissing(found) ==
  LET missing == {i \in 1..Len(CheckOrder) : found[CheckOrder[i]] = None}
  IN  IF missing = {} THEN "none"
      ELSE CheckOrder[CHOOSE i \in missing : \A j \in missing : i <= j]

\* The resolution of one leg on the Pump.fun venue: the error of the first
\* failing check ("none" when all eight accounts are found) and the
\* accounts found.
ResolvePumpFun(arbitrage_accounts_slice, arbitrage, user_key) ==
  LET found == ScanAccounts(NoneFound, arbitrage_accounts_slice, arbitrage, user_key)
      first == FirstMissing(found)
  IN  IF first # "none"
        THEN [err |-> NotFoundError(first), found |-> found,
              associated_bonding_curve_account |-> None]
        ELSE LET expected_ata ==
                   get_associated_token_address(found.bonding_curve_account[1].key,
                                                arbitrage.token_mint)
                 ata == FindAssociatedBondingCurve(arbitrage_accounts_slice, expected_ata)
             IN  [err |-> IF ata = None
                            THEN NotFoundError("associated_bonding_curve_account")
                            ELSE "none",
                  found |-> found,
                  associated_bonding_curve_account |-> ata]

\* ------------------------------------------------------------ instructions

\* AccountMeta::new(pubkey, is_signer) and AccountMeta::new_readonly(..).
AccountMetaNew(pubkey, is_signer) ==
  [pubkey |-> pubkey, is_signer |-> is_signer, is_writable |-> TRUE]

AccountMetaNewReadonly(pubkey, is_signer) ==
  [pubkey |-> pubkey, is_signer |-> is_signer, is_writable |-> FALSE]

\* Named accounts of the ExecuteArbitrageBatch context used by the handler.
UserAccountInfo(user_key) == PlainAccount(user_key)
SystemProgramInfo == [key |-> SystemProgramId, owner |-> <<"NativeLoader">>, data |-> NoData]
TokenProgramInfo == [key |-> TokenProgramId, owner |-> <<"BPFLoader">>, data |-> NoData]
RentInfo == [key |-> RentSysvarId, owner |-> <<"Sysvar">>, data |-> NoData]

buy_discriminator == <<102, 6, 61, 18, 1, 218, 235, 234>>

sell_discriminator == <<51, 230, 133, 164, 1, 127, 131, 173>>

\* A u64 is held as its four 16-bit limbs, least significant first, so that
\* 2^64 - 1 is held without overflow.
U64Of(n) == <<n % 65536, (n \div 65536) % 65536, 0, 0>>

U64Max == <<65535, 65535, 65535, 65535>>

\* LeBytes with the most significant byte first.
RECURSIVE LeBytes_BigEndian(_, _)
LeBytes_BigEndian(v, n) ==
  IF n = 0 THEN <<>> ELSE LeBytes_BigEndian(v \div 256, n - 1) \o <<v % 256>>

\* The n low bytes of v, least significant first.
RECURSIVE LeBytes(_, _)
LeBytes(v, n) == IF n = 0 THEN <<>> ELSE <<v % 256>> \o LeBytes(v \div 256, n - 1)

\* u64::to_le_bytes: the eight bytes of v, least significant first.
to_le_bytes(v) ==
  LeBytes(v[1], 2) \o LeBytes(v[2], 2) \o LeBytes(v[3], 2) \o LeBytes(v[4], 2)

\* The instruction data of a Pump.fun buy: discriminator, tokens_to_buy,
\* max_sol_cost.
BuyData(arbitrage) ==
  buy_discriminator
    \o to_le_bytes(arbitrage.tokens_to_buy)
    \o to_le_bytes(arbitrage.max_sol_cost)

\* The instruction data of a Pump.fun sell: discriminator, tokens_to_sell,
\* min_wsol_out.
SellData(arbitrage) ==
  sell_discriminator
    \o to_le_bytes(arbitrage.tokens_to_sell)
    \o to_le_bytes(arbitrage.min_wsol_out)

\* The account list of the buy instruction, in the venue's order.
PumpFunAccountMetas(r, user_key) ==
  <<AccountMetaNewReadonly(r.found.global_account[1].key, FALSE),
    AccountMetaNew(r.found.fee_recipient_account[1].key, FALSE),
    AccountMetaNewReadonly(r.found.mint_account[1].key, FALSE),
    AccountMetaNew(r.found.bonding_curve_account[1].key, FALSE),
    AccountMetaNew(r.associated_bonding_curve_account[1].key, FALSE),
    AccountMetaNew(r.found.user_token_account[1].key, FALSE),
    AccountMetaNew(user_key, TRUE),
    AccountMetaNewReadonly(SystemProgramId, FALSE),
    AccountMetaNewReadonly(TokenProgramId, FALSE),
    AccountMetaNewReadonly(RentSysvarId, FALSE),
    AccountMetaNewReadonly(r.found.event_authority_account[1].key, FALSE),
    AccountMetaNewReadonly(r.found.pump_program_account[1].key, FALSE)>>

NoInstruction == [program_id |-> NoKey, accounts |-> <<>>, data |-> <<>>]

\* let buy_instruction = match arbitrage.buy_dex { .. }: the instruction, or
\* the error the match returns with.
BuildBuyInstruction(arbitrage_accounts_slice, arbitrage, user_key) ==
  IF arbitrage.buy_dex = PumpFun
    THEN LET r == ResolvePumpFun(arbitrage_accounts_slice, arbitrage, user_key)
         IN  IF r.err # "none"
               THEN [err |-> r.err, instruction |-> NoInstruction]
               ELSE [err |-> "none",
                     instruction |->
                       [program_id |-> pump_program_id,
                        accounts |-> PumpFunAccountMetas(r, user_key),
                        data |-> BuyData(arbitrage)]]
    ELSE [err |-> "InvalidDexType", instruction |-> NoInstruction]

\* IsBuyAccount without the clause of the venue program.
IsBuyAccount_NoProgram(acc_info, arbitrage) ==
  \/ acc_info.key = expected_global
  \/ acc_info.key = fee_recipient
  \/ acc_info.key = arbitrage.token_mint
  \/ acc_info.key = expected_bonding_curve(arbitrage.token_mint)
  \/ acc_info.key = get_associated_token_address(
                      expected_bonding_curve(arbitrage.token_mint), arbitrage.token_mint)
  \/ acc_info.key = expected_event_authority
  \/ (acc_info.owner = TokenProgramId /\ acc_info.data.len_ok)

\* The filter of the buy_accounts loop.
IsBuyAccount(acc_info, arbitrage) ==
  \/ acc_info.key = expected_global
  \/ acc_info.key = fee_recipient
  \/ acc_info.key = arbitrage.token_mint
  \/ acc_info.key = expected_bonding_curve(arbitrage.token_mint)
  \/ acc_info.key = get_associated_token_address(
                      expected_bonding_curve(arbitrage.token_mint), arbitrage.token_mint)
  \/ acc_info.key = expected_event_authority
  \/ acc_info.key = pump_program_id
  \/ (acc_info.owner = TokenProgramId /\ acc_info.data.len_ok)

\* let buy_accounts = match arbitrage.buy_dex { .. }: the handles passed to
\* the invocation.
BuildBuyAccounts(arbitrage_accounts_slice, arbitrage, user_key) ==
  IF arbitrage.buy_dex = PumpFun
    THEN SelectSeq(arbitrage_accounts_slice, LAMBDA a : IsBuyAccount(a, arbitrage))
           \o <<UserAccountInfo(user_key), SystemProgramInfo, TokenProgramInfo, RentInfo>>
    ELSE <<>>

\* BuildSellInstruction falling back to the Pump.fun encoding for any venue.
BuildSellInstruction_Fallback(arbitrage, buy_instruction) ==
  [err |-> "none",
   instruction |->
     [program_id |-> pump_program_id,
      accounts |-> buy_instruction.accounts,
      data |-> SellData(arbitrage)]]

\* BuildSellInstruction with the account list rebuilt without the signer
\* flag of the trader.
BuildSellInstruction_NoSigner(arbitrage, buy_instruction) ==
  IF arbitrage.sell_dex = PumpFun
    THEN [err |-> "none",
          instruction |->
            [program_id |-> pump_program_id,
             accounts |-> [p \in 1..Len(buy_instruction.accounts) |->
                             [buy_instruction.accounts[p] EXCEPT !.is_signer = FALSE]],
             data |-> SellData(arbitrage)]]
    ELSE [err |-> "InvalidDexType", instruction |-> NoInstruction]

\* let sell_instruction = match arbitrage.sell_dex { .. }.
BuildSellInstruction(arbitrage, buy_instruction) ==
  IF arbitrage.sell_dex = PumpFun
    THEN [err |-> "none",
          instruction |->
            [program_id |-> pump_program_id,
             accounts |-> buy_instruction.accounts,
             data |-> SellData(arbitrage)]]
    ELSE [err |-> "InvalidDexType", instruction |-> NoInstruction]

\* ------------------------------------------------------------------ inputs

\* The identities that sign transactions.
Alice == <<"alice">>
Bob == <<"bob">>
Identities == {Alice, Bob}

\* The holder of the trader token accounts found in the submitted pools.
Holder == Alice

MintA == <<"mintA">>
MintB == <<"mintB">>

\* The canonical bump of the router_state address.
RouterBump == 254

\* The eight accounts a Pump.fun leg on token_mint requires, as the chain
\* holds them: the mint is owned by the token program and is no token
\* account; the bonding curve's associated token account is a token account
\* of the bonding curve.
RequiredAccounts(token_mint) ==
  <<PlainAccount(pump_program_id),
    PlainAccount(expected_global),
    PlainAccount(fee_recipient),
    [key |-> token_mint, owner |-> TokenProgramId, data |-> NoData],
    PlainAccount(expected_bonding_curve(token_mint)),
    TokenAccountInfo(get_associated_token_address(Holder, token_mint), Holder, token_mint),
    PlainAccount(expected_event_authority),
    TokenAccountInfo(
      get_associated_token_address(expected_bonding_curve(token_mint), token_mint),
      expected_bonding_curve(token_mint), token_mint)>>

\* A second token account of the holder for the same mint.
SecondTokenAccount(token_mint) ==
  TokenAccountInfo(<<"aux">> \o Holder \o token_mint, Holder, token_mint)

Unrelated == PlainAccount(<<"unrelated">>)

UnrelatedTokenShaped == UninitTokenAccountInfo(<<"fresh">>)

Reverse(s) == [i \in 1..Len(s) |-> s[Len(s) + 1 - i]]

Without(s, k) == SubSeq(s, 1, k - 1) \o SubSeq(s, k + 1, Len(s))

OmitKinds == {"omit1", "omit2", "omit3", "omit4", "omit5", "omit6", "omit7", "omit8"}

OmitIndex(kind) ==
  CASE kind = "omit1" -> 1 [] kind = "omit2" -> 2 [] kind = "omit3" -> 3
    [] kind = "omit4" -> 4 [] kind = "omit5" -> 5 [] kind = "omit6" -> 6
    [] kind = "omit7" -> 7 [] kind = "omit8" -> 8

\* The accounts a caller puts into the pool for one leg.
Segment(kind, token_mint) ==
  LET full == RequiredAccounts(token_mint)
  IN  CASE kind = "full" -> full
        [] kind = "reversed" -> Reverse(full)
        [] kind \in OmitKinds -> Without(full, OmitIndex(kind))
        [] kind = "unrelated" -> <<Unrelated>> \o full
        [] kind = "token_shaped" -> full \o <<UnrelatedTokenShaped>>
        [] kind = "second_last" -> full \o <<SecondTokenAccount(token_mint)>>
        [] kind = "second_first" -> <<SecondTokenAccount(token_mint)>> \o full
        [] kind = "other_mint" ->
             RequiredAccounts(IF token_mint = MintA THEN MintB ELSE MintA)
        [] kind = "empty" -> <<>>

\* What a caller chooses for one leg: the venues, the token, the accounts
\* put into the pool, and by how much accounts_count differs from their
\* number.
Choice(buy_dex, sell_dex, token_mint, kind, delta) ==
  [buy_dex |-> buy_dex, sell_dex |-> sell_dex, token_mint |-> token_mint,
   kind |-> kind, delta |-> delta]

PlainLeg == Choice(PumpFun, PumpFun, MintA, "full", 0)

OddLegs ==
  {Choice(PumpFun, Meteora, MintA, "full", 0),
   Choice(Meteora, PumpFun, MintA, "full", 0),
   Choice(Meteora, Meteora, MintA, "empty", 0),
   Choice(PumpFun, PumpFun, MintB, "full", 0),
   Choice(PumpFun, PumpFun, MintA, "full", 1),
   Choice(PumpFun, PumpFun, MintA, "full", -1),
   Choice(PumpFun, PumpFun, MintA, "full", 40),
   Choice(Meteora, PumpFun, MintA, "full", 40),
   Choice(PumpFun, PumpFun, MintA, "token_shaped", -1),
   Choice(PumpFun, Meteora, MintA, "omit3", 0),
   Choice(PumpFun, Meteora, MintA, "omit8", 0),
   Choice(Meteora, PumpFun, MintA, "omit1", 0)}
  \cup {Choice(PumpFun, PumpFun, MintA, kind, 0) :
          kind \in OmitKinds \cup {"reversed", "unrelated", "token_shaped",
                                   "second_last", "second_first", "other_mint"}}

\* Legs whose accounts_count stops short of the accounts put into the pool
\* for them, so that the sub-range lacks the last slots of the segment, on
\* either sell venue.
ShortLegs ==
  {Choice(PumpFun, sell_dex, MintA, "full", -short) :
     sell_dex \in DexType, short \in 2..8}

\* The legs' choices of the batches submitted: at most MaxOdd legs are odd,
\* or one leg is short.
BatchChoices ==
  UNION {UNION {{[k \in 1..NumLegs |-> IF k \in odd THEN pick[k] ELSE PlainLeg] :
                   pick \in [odd -> OddLegs]}} :
           odd \in {S \in SUBSET (1..NumLegs) : Cardinality(S) <= MaxOdd}}
  \cup {[k \in 1..NumLegs |-> IF k = at THEN c ELSE PlainLeg] :
          at \in 1..NumLegs, c \in ShortLegs}

\* ArbitrageParams of leg k for a choice. The amounts are the planner's.
Params(c, k) ==
  [token_mint |-> c.token_mint,
   amount_in |-> U64Of(1000000 * k),
   min_wsol_out |-> U64Of(1000000 * k + 1),
   buy_dex |-> c.buy_dex,
   sell_dex |-> c.sell_dex,
   accounts_count |-> Len(Segment(c.kind, c.token_mint)) + c.delta,
   tokens_to_buy |-> U64Of(65536 * k + 258),
   max_sol_cost |-> U64Of(1000000 * k + 7),
   tokens_to_sell |-> U64Of(65536 * k + 257)]

RECURSIVE Concat(_)
Concat(seqs) == IF seqs = <<>> THEN <<>> ELSE Head(seqs) \o Concat(Tail(seqs))

\* The batches submitted: the four ArbitrageParams and the account pool.
Batches ==
  {[arbitrages |-> [k \in 1..NumLegs |-> Params(b[k], k)],
    remaining_accounts |->
      Concat([k \in 1..NumLegs |-> Segment(b[k].kind, b[k].token_mint)])] :
     b \in BatchChoices}

\* ------------------------------------------------------------------- state

VARIABLES
  router_state,          \* the RouterState singleton
  pc,                    \* "idle", or the position of the running handler
  op,                    \* the instruction running or just returned
  signer,                \* the identity that signed it (owner or user)
  arbitrages,            \* execute_arbitrage_batch: the four legs
  remaining_accounts,    \* execute_arbitrage_batch: the account pool
  index,                 \* the loop's index, 0-based
  account_offset,        \* the running offset into the pool
  buy_instruction, buy_accounts, sell_instruction, sell_accounts,
  calls,                 \* the invocations issued by the running handler
  result                 \* what the handler returned, "none" while it runs

vars ==
  <<router_state, pc, op, signer, arbitrages, remaining_accounts, index,
    account_offset, buy_instruction, buy_accounts, sell_instruction,
    sell_accounts, calls, result>>

batch_vars ==
  <<arbitrages, remaining_accounts, index, account_offset, buy_instruction,
    buy_accounts, sell_instruction, sell_accounts, calls>>

Init ==
  /\ router_state = [exists |-> FALSE, owner |-> NoKey, is_paused |-> FALSE, bump |-> 0]
  /\ pc = "idle"
  /\ op = "none"
  /\ signer = NoKey
  /\ arbitrages = <<>>
  /\ remaining_accounts = <<>>
  /\ index = 0
  /\ account_offset = 0
  /\ buy_instruction = NoInstruction
  /\ buy_accounts = <<>>
  /\ sell_instruction = NoInstruction
  /\ sell_accounts = <<>>
  /\ calls = <<>>
  /\ result = "none"

\* The frame of a handler that never runs the batch loop.
NoBatchFrame ==
  /\ arbitrages' = <<>>
  /\ remaining_accounts' = <<>>
  /\ index' = 0
  /\ account_offset' = 0
  /\ buy_instruction' = NoInstruction
  /\ buy_accounts' = <<>>
  /\ sell_instruction' = NoInstruction
  /\ sell_accounts' = <<>>
  /\ calls' = <<>>

\* ---------------------------------------------------------------- initialize

\* Initialize with init_if_needed in place of init: an existing account is
\* written again.
Initialize_IfNeeded ==
  /\ pc = "idle"
  /\ \E owner \in Identities :
       /\ signer' = owner
       /\ result' = "Ok"
       /\ router_state' = [exists |-> TRUE, owner |-> owner,
                           is_paused |-> FALSE, bump |-> RouterBump]
  /\ op' = "initialize"
  /\ pc' = "returned"
  /\ NoBatchFrame

\* initialize, with the init constraint of its router_state account: the
\* account is created, and the instruction fails when it exists already.
Initialize ==
  /\ pc = "idle"
  /\ \E owner \in Identities :
       /\ signer' = owner
       /\ IF router_state.exists
            THEN /\ result' = "AccountAlreadyInUse"
                 /\ UNCHANGED router_state
            ELSE /\ result' = "Ok"
                 /\ router_state' = [exists |-> TRUE, owner |-> owner,
                                     is_paused |-> FALSE, bump |-> RouterBump]
  /\ op' = "initialize"
  /\ pc' = "returned"
  /\ NoBatchFrame

\* -------------------------------------------------------------- toggle_pause

\* IsOwner with the comparison left out: any signer passes.
IsOwner_Anyone(key) == TRUE

\* require!(ctx.accounts.owner.key() == router_state.owner, ..)
IsOwner(key) == key = router_state.owner

TogglePause ==
  /\ pc = "idle"
  /\ router_state.exists
  /\ \E owner \in Identities :
       /\ signer' = owner
       /\ IF IsOwner(owner)
            THEN /\ router_state' = [router_state EXCEPT !.is_paused = ~router_state.is_paused]
                 /\ result' = "Ok"
            ELSE /\ UNCHANGED router_state
                 /\ result' = "UnauthorizedAccess"
  /\ op' = "toggle_pause"
  /\ pc' = "returned"
  /\ NoBatchFrame

\* ---------------------------------------------------- execute_arbitrage_batch

\* PauseGate with the flag never read.
PauseGate_Ignored(state) == "none"

\* require!(!ctx.accounts.router_state.is_paused, ..): the gate's failure.
PauseGate(state) == IF state.is_paused THEN "ContractIsPaused" ELSE "none"

\* The entry of the handler, up to the loop: the pause check and the locals.
Begin ==
  /\ pc = "idle"
  /\ router_state.exists
  /\ \E user \in Identities, batch \in Batches :
       /\ signer' = user
       /\ arbitrages' = batch.arbitrages
       /\ remaining_accounts' = batch.remaining_accounts
  /\ op' = "execute_arbitrage_batch"
  /\ index' = 0
  /\ account_offset' = 0
  /\ buy_instruction' = NoInstruction
  /\ buy_accounts' = <<>>
  /\ sell_instruction' = NoInstruction
  /\ sell_accounts' = <<>>
  /\ calls' = <<>>
  /\ result' = PauseGate(router_state)
  /\ pc' = IF PauseGate(router_state) = "none" THEN "leg" ELSE "returned"
  /\ UNCHANGED router_state

\* SliceEnd taken as the leg's count alone, not added to the offset.
SliceEnd_CountOnly(start, arbitrage) == arbitrage.accounts_count

\* let end = start + arbitrage.accounts_count as usize;
SliceEnd(start, arbitrage) == start + arbitrage.accounts_count

\* require!(ctx.remaining_accounts.len() >= end, ..)
HasEnoughAccounts(pool, end) == Len(pool) >= end

\* &ctx.remaining_accounts[start..end]
Slice(pool, start, end) == SubSeq(pool, start + 1, end)

NoLeg ==
  [buy_instruction |-> NoInstruction, buy_accounts |-> <<>>,
   sell_instruction |-> NoInstruction, sell_accounts |-> <<>>]

\* BuildLeg with the venue of the buy side examined before the length of the
\* pool.
BuildLeg_VenueFirst(pool, start, arbitrage, user_key) ==
  LET end == SliceEnd(start, arbitrage)
  IN  IF arbitrage.buy_dex = Meteora
        THEN [err |-> "InvalidDexType", leg |-> NoLeg]
        ELSE IF ~HasEnoughAccounts(pool, end)
          THEN [err |-> "InsufficientAccounts", leg |-> NoLeg]
          ELSE
            LET arbitrage_accounts_slice == Slice(pool, start, end)
                buy == BuildBuyInstruction(arbitrage_accounts_slice, arbitrage, user_key)
                accounts ==
                  BuildBuyAccounts(arbitrage_accounts_slice, arbitrage, user_key)
                sell == BuildSellInstruction(arbitrage, buy.instruction)
            IN  IF buy.err # "none"
                  THEN [err |-> buy.err, leg |-> NoLeg]
                  ELSE IF sell.err # "none"
                    THEN [err |-> sell.err, leg |-> NoLeg]
                    ELSE [err |-> "none",
                          leg |-> [buy_instruction |-> buy.instruction,
                                   buy_accounts |-> accounts,
                                   sell_instruction |-> sell.instruction,
                                   sell_accounts |-> accounts]]

\* BuildLeg with the error of the sell instruction not returned before the
\* invocation of the buy instruction.
BuildLeg_SellDeferred(pool, start, arbitrage, user_key) ==
  LET end == SliceEnd(start, arbitrage)
  IN  IF ~HasEnoughAccounts(pool, end)
        THEN [err |-> "InsufficientAccounts", leg |-> NoLeg]
        ELSE
          LET arbitrage_accounts_slice == Slice(pool, start, end)
              buy == BuildBuyInstruction(arbitrage_accounts_slice, arbitrage, user_key)
              accounts == BuildBuyAccounts(arbitrage_accounts_slice, arbitrage, user_key)
          IN  IF buy.err # "none"
                THEN [err |-> buy.err, leg |-> NoLeg]
                ELSE [err |-> "none",
                      leg |-> [buy_instruction |-> buy.instruction,
                               buy_accounts |-> accounts,
                               sell_instruction |->
                                 BuildSellInstruction(arbitrage, buy.instruction).instruction,
                               sell_accounts |-> accounts]]

\* One iteration of the loop up to its first invocation: the slice, the buy
\* instruction and its handles, the sell instruction and its handles; err is
\* the error the iteration returns with, "none" when it reaches the
\* invocations.
BuildLeg(pool, start, arbitrage, user_key) ==
  LET end == SliceEnd(start, arbitrage)
  IN  IF ~HasEnoughAccounts(pool, end)
        THEN [err |-> "InsufficientAccounts", leg |-> NoLeg]
        ELSE
          LET arbitrage_accounts_slice == Slice(pool, start, end)
              buy == BuildBuyInstruction(arbitrage_accounts_slice, arbitrage, user_key)
          IN  IF buy.err # "none"
                THEN [err |-> buy.err, leg |-> NoLeg]
                ELSE
                  LET accounts ==
                        BuildBuyAccounts(arbitrage_accounts_slice, arbitrage, user_key)
                      sell == BuildSellInstruction(arbitrage, buy.instruction)
                  IN  IF sell.err # "none"
                        THEN [err |-> sell.err, leg |-> NoLeg]
                        ELSE [err |-> "none",
                              leg |-> [buy_instruction |-> buy.instruction,
                                       buy_accounts |-> accounts,
                                       sell_instruction |-> sell.instruction,
                                       sell_accounts |-> accounts]]

\* AfterBuild with the error logged and the iteration carried on.
AfterBuild_Continue(err) == "invoke_buy"

\* Where the handler continues after the instructions of a leg are built:
\* every error of the iteration returns from the handler.
AfterBuild(err) == IF err = "none" THEN "invoke_buy" ELSE "returned"

\* The loop body of leg index before the invocations.
PrepareLeg ==
  /\ pc = "leg"
  /\ index < NumLegs
  /\ LET built == BuildLeg(remaining_accounts, account_offset,
                           arbitrages[index + 1], signer)
     IN  /\ buy_instruction' = built.leg.buy_instruction
         /\ buy_accounts' = built.leg.buy_accounts
         /\ sell_instruction' = built.leg.sell_instruction
         /\ sell_accounts' = built.leg.sell_accounts
         /\ result' = built.err
         /\ pc' = AfterBuild(built.err)
  /\ UNCHANGED <<router_state, op, signer, arbitrages, remaining_accounts,
                 index, account_offset, calls>>

\* An invocation issued: the operation, the leg, what was passed, and whether
\* the invoked program returned successfully.
Call(kind, leg, instruction, account_infos, ok) ==
  [kind |-> kind, leg |-> leg, instruction |-> instruction,
   account_infos |-> account_infos, ok |-> ok]

\* AfterInvoke with the result of invoke dropped instead of propagated.
AfterInvoke_Ignore(ok, next) == next

\* Where the handler continues after invoke(..)? returned ok or an error.
AfterInvoke(ok, next) == IF ok THEN next ELSE "returned"

\* AdvanceOffset with the assignment forgotten.
AdvanceOffset_Stale(offset, end) == offset

\* account_offset = end;
AdvanceOffset(offset, end) == end

\* NextIndex stepping over a leg.
NextIndex_Skip(i) == i + 2

\* The next item of arbitrages.iter().enumerate().
NextIndex(i) == i + 1

\* invoke(&buy_instruction, &buy_accounts)?
InvokeBuy ==
  /\ pc = "invoke_buy"
  /\ \E ok \in BOOLEAN :
       /\ calls' = Append(calls, Call("buy", index, buy_instruction, buy_accounts, ok))
       /\ pc' = AfterInvoke(ok, "invoke_sell")
       /\ result' = IF pc' = "returned" THEN "ProgramError" ELSE "none"
  /\ UNCHANGED <<router_state, op, signer, arbitrages, remaining_accounts, index,
                 account_offset, buy_instruction, buy_accounts, sell_instruction,
                 sell_accounts>>

\* InvokeSell with the accounts of the finished leg taken off the pool.
InvokeSell_Drain ==
  /\ pc = "invoke_sell"
  /\ \E ok \in BOOLEAN :
       /\ calls' = Append(calls, Call("sell", index, sell_instruction, sell_accounts, ok))
       /\ pc' = AfterInvoke(ok, "leg")
       /\ IF pc' = "leg"
            THEN /\ result' = "none"
                 /\ account_offset' =
                      AdvanceOffset(account_offset,
                                    SliceEnd(account_offset, arbitrages[index + 1]))
                 /\ remaining_accounts' =
                      SubSeq(remaining_accounts,
                             arbitrages[index + 1].accounts_count + 1,
                             Len(remaining_accounts))
                 /\ index' = NextIndex(index)
                 /\ buy_instruction' = NoInstruction
                 /\ buy_accounts' = <<>>
                 /\ sell_instruction' = NoInstruction
                 /\ sell_accounts' = <<>>
            ELSE /\ result' = "ProgramError"
                 /\ UNCHANGED <<account_offset, index, buy_instruction, buy_accounts,
                                sell_instruction, sell_accounts, remaining_accounts>>
  /\ UNCHANGED <<router_state, op, signer, arbitrages>>

\* invoke(&sell_instruction, &sell_accounts)?; account_offset = end; and the
\* loop's step to the next leg.
InvokeSell ==
  /\ pc = "invoke_sell"
  /\ \E ok \in BOOLEAN :
       /\ calls' = Append(calls, Call("sell", index, sell_instruction, sell_accounts, ok))
       /\ pc' = AfterInvoke(ok, "leg")
       /\ IF pc' = "leg"
            THEN /\ result' = "none"
                 /\ account_offset' =
                      AdvanceOffset(account_offset,
                                    SliceEnd(account_offset, arbitrages[index + 1]))
                 /\ index' = NextIndex(index)
                 /\ buy_instruction' = NoInstruction
                 /\ buy_accounts' = <<>>
                 /\ sell_instruction' = NoInstruction
                 /\ sell_accounts' = <<>>
            ELSE /\ result' = "ProgramError"
                 /\ UNCHANGED <<account_offset, index, buy_instruction, buy_accounts,
                                sell_instruction, sell_accounts>>
  /\ UNCHANGED <<router_state, op, signer, arbitrages, remaining_accounts>>

\* The loop is exhausted: Ok(()).
Finish ==
  /\ pc = "leg"
  /\ index = NumLegs
  /\ result' = "Ok"
  /\ pc' = "returned"
  /\ UNCHANGED <<router_state, op, signer, batch_vars>>

\* The transaction of the returned instruction ends.
Return ==
  /\ pc = "returned"
  /\ pc' = "idle"
  /\ op' = "none"
  /\ signer' = NoKey
  /\ result' = "none"
  /\ NoBatchFrame
  /\ UNCHANGED router_state

Next ==
  \/ Initialize
  \/ TogglePause
  \/ Begin
  \/ PrepareLeg
  \/ InvokeBuy
  \/ InvokeSell
  \/ Finish
  \/ Return

Spec == Init /\ [][Next]_vars

\* ------------------------------------------------------------------ claims

Running == op = "execute_arbitrage_batch"

Failed == result \notin {"none", "Ok"}

\* The operations and legs of the invocations issued, in order.
CallKinds == [i \in 1..Len(calls) |-> <<calls[i].kind, calls[i].leg>>]

\* buy(0), sell(0), buy(1), sell(1), buy(2), sell(2), buy(3), sell(3).
ExpectedCalls ==
  [i \in 1..(2 * NumLegs) |-> <<IF i % 2 = 1 THEN "buy" ELSE "sell", (i - 1) \div 2>>]

IsPrefix(s, t) == Len(s) <= Len(t) /\ \A i \in 1..Len(s) : s[i] = t[i]

AllCallsOk == \A i \in 1..Len(calls) : calls[i].ok

\* c0 + ... + c(k-1) for the submitted legs, k in 0..NumLegs.
RECURSIVE CountSum(_)
CountSum(k) == IF k = 0 THEN 0 ELSE CountSum(k - 1) + arbitrages[k].accounts_count

\* Leg k's sub-range lies within the pool (k is 0-based).
InPool(k) == CountSum(k + 1) <= Len(remaining_accounts)

\* The handles of leg k's sub-range, pool indices [c0+..+c(k-1), c0+..+ck).
SubRange(k) == SubSeq(remaining_accounts, CountSum(k) + 1, CountSum(k + 1))

Leg(k) == arbitrages[k + 1]

Legs == 0..(NumLegs - 1)

Slots ==
  {"pump_program_account", "global_account", "fee_recipient_account",
   "mint_account", "bonding_curve_account", "user_token_account",
   "event_authority_account", "associated_bonding_curve_account"}

\* The account qualifies for the slot of a leg on token_mint traded by user_key.
Qualifies(a, slot, token_mint, user_key) ==
  CASE slot = "pump_program_account" -> a.key = pump_program_id
    [] slot = "global_account" ->
         a.key = find_program_address(<<"global">>, pump_program_id)
    [] slot = "fee_recipient_account" -> a.key = fee_recipient
    [] slot = "mint_account" -> a.key = token_mint
    [] slot = "bonding_curve_account" ->
         a.key = find_program_address(<<"bonding-curve">> \o token_mint, pump_program_id)
    [] slot = "user_token_account" ->
         /\ a.owner = TokenProgramId
         /\ a.data.len_ok /\ a.data.init
         /\ a.data.owner = user_key /\ a.data.mint = token_mint
    [] slot = "event_authority_account" ->
         a.key = find_program_address(<<"__event_authority">>, pump_program_id)
    [] slot = "associated_bonding_curve_account" ->
         a.key = get_associated_token_address(
                   find_program_address(<<"bonding-curve">> \o token_mint, pump_program_id),
                   token_mint)

\* The required slots for which a sequence of handles holds no account.
MissingSlots(handles, token_mint, user_key) ==
  {slot \in Slots :
     ~\E i \in 1..Len(handles) : Qualifies(handles[i], slot, token_mint, user_key)}

\* Leg k's sub-range lies within the pool and holds an account for every slot.
Populated(k) ==
  /\ InPool(k)
  /\ MissingSlots(SubRange(k), Leg(k).token_mint, signer) = {}

\* C1: when the router is paused as execute_arbitrage_batch starts, the call
\* returns ContractIsPaused, no leg is processed and no invocation is issued.
C1_PausedBatchAborts ==
  (Running /\ router_state.is_paused) =>
    /\ pc = "returned"
    /\ result = "ContractIsPaused"
    /\ calls = <<>>
    /\ index = 0
    /\ account_offset = 0
    /\ buy_instruction = NoInstruction
    /\ sell_instruction = NoInstruction

C1_Witness ==
  /\ Running
  /\ router_state.is_paused
  /\ result = "ContractIsPaused"
  /\ \A k \in Legs : Leg(k).buy_dex = PumpFun /\ Leg(k).sell_dex = PumpFun /\ Populated(k)

\* The batch of C2: unpaused, every venue supported, every sub-range within
\* the pool and holding all required accounts.
ValidBatch ==
  /\ Running
  /\ ~router_state.is_paused
  /\ \A k \in Legs : Leg(k).buy_dex = PumpFun /\ Leg(k).sell_dex = PumpFun
  /\ \A k \in Legs : Populated(k)

\* C2: a valid batch fails only by a failed invocation, and when every
\* invocation succeeds it returns success after exactly the eight calls
\* buy(0), sell(0), ..., buy(3), sell(3), in this order.
C2_ValidBatchEightCalls ==
  ValidBatch =>
    /\ result \in {"none", "Ok", "ProgramError"}
    /\ (result = "ProgramError" => ~AllCallsOk)
    /\ IsPrefix(CallKinds, ExpectedCalls)
    /\ (pc = "returned" /\ AllCallsOk =>
          result = "Ok" /\ CallKinds = ExpectedCalls)

C2_Witness ==
  /\ ValidBatch
  /\ pc = "returned"
  /\ AllCallsOk
  /\ CallKinds = ExpectedCalls
  /\ \E k \in Legs : SubRange(k) # RequiredAccounts(Leg(k).token_mint)

\* The first leg whose sub-range ends beyond the pool.
FirstOverrun == CHOOSE k \in Legs : ~InPool(k) /\ \A j \in Legs : ~InPool(j) => k <= j

CountsExceedPool == CountSum(NumLegs) > Len(remaining_accounts)

\* C3 as stated: when the counts sum to more than the pool holds and the
\* batch fails with InsufficientAccounts, no invocation has been issued.
C3_Original ==
  (Running /\ CountsExceedPool /\ result = "InsufficientAccounts") => calls = <<>>

\* C3 amended: when the counts sum to more than the pool holds, an unpaused
\* batch never succeeds and issues no call of the first leg k whose
\* sub-range ends beyond the pool, nor of a later leg; it fails with
\* InsufficientAccounts exactly when it reaches leg k, after the 2k
\* successful calls of the legs before k.
C3_InsufficientAtFirstOverrun ==
  (Running /\ ~router_state.is_paused /\ CountsExceedPool) =>
    /\ result # "Ok"
    /\ index <= FirstOverrun
    /\ \A i \in 1..Len(calls) : calls[i].leg < FirstOverrun
    /\ (index = FirstOverrun /\ pc = "returned" => result = "InsufficientAccounts")
    /\ (result = "InsufficientAccounts" =>
          /\ index = FirstOverrun
          /\ AllCallsOk
          /\ CallKinds = SubSeq(ExpectedCalls, 1, 2 * FirstOverrun))

C3_Witness ==
  /\ Running
  /\ CountsExceedPool
  /\ result = "InsufficientAccounts"
  /\ Len(calls) = 2 * FirstOverrun
  /\ FirstOverrun > 0

NamesMeteora(k) == Leg(k).buy_dex = Meteora \/ Leg(k).sell_dex = Meteora

\* The first leg naming the unsupported venue.
FirstMeteora == CHOOSE k \in Legs : NamesMeteora(k) /\ \A j \in Legs : NamesMeteora(j) => k <= j

\* C4 as stated: an unpaused batch with a leg naming Meteora returns
\* InvalidDexType and has issued no invocation.
C4_Original ==
  (Running /\ ~router_state.is_paused /\ pc = "returned"
     /\ \E k \in Legs : NamesMeteora(k)) =>
    result = "InvalidDexType" /\ calls = <<>>

\* C4 amended: an unpaused batch with a leg naming Meteora never succeeds
\* and issues no call of the first such leg k nor of a later leg; it fails
\* with InvalidDexType only at leg k, and does so whenever it returns at leg
\* k with the leg's sub-range within the pool and either the buy venue
\* Meteora or all required accounts in the sub-range.
C4_InvalidDexAtFirstMeteora ==
  (Running /\ ~router_state.is_paused /\ \E k \in Legs : NamesMeteora(k)) =>
    /\ result # "Ok"
    /\ index <= FirstMeteora
    /\ \A i \in 1..Len(calls) : calls[i].leg < FirstMeteora
    /\ (result = "InvalidDexType" => index = FirstMeteora)
    /\ (/\ index = FirstMeteora
        /\ pc = "returned"
        /\ InPool(FirstMeteora)
        /\ \/ Leg(FirstMeteora).buy_dex = Meteora
           \/ Populated(FirstMeteora)
        => result = "InvalidDexType")

C4_Witness ==
  /\ Running
  /\ result = "InvalidDexType"
  /\ Leg(index).buy_dex = PumpFun
  /\ Len(calls) = 2 * index
  /\ index > 0

\* What holds of every state of a failed batch: the handler has returned,
\* the failed invocation if any is the last one issued, no call belongs to a
\* leg after the failing one, and a leg that failed before its invocations
\* has no call.
FailedBatch ==
  /\ (Running /\ Failed) => pc = "returned"
  /\ \A i \in 1..Len(calls) :
       ~calls[i].ok => i = Len(calls) /\ pc = "returned" /\ result = "ProgramError"
  /\ (Running /\ Failed) =>
       /\ \A i \in 1..Len(calls) : calls[i].leg <= index
       /\ (result # "ProgramError" => \A i \in 1..Len(calls) : calls[i].leg < index)
       /\ (result = "ProgramError" /\ calls[Len(calls)].kind = "buy" =>
             \A i \in 1..Len(calls) : ~(calls[i].kind = "sell" /\ calls[i].leg = index))

\* C5: once a step of a batch fails, the handler returns that error at once
\* and issues no further call: no step of a failed batch adds a call, moves
\* to another leg or changes the error before the transaction ends.
C5_FailFast ==
  /\ []FailedBatch
  /\ [][(Running /\ Failed) =>
          /\ pc' = "idle"
          /\ calls' = <<>>]_vars

C5_Witness ==
  /\ Running
  /\ result = "ProgramError"
  /\ calls[Len(calls)].kind = "buy"
  /\ calls[Len(calls)].leg = 1

\* C6: the calls issued so far are a prefix of buy(0), sell(0), ..., buy(3),
\* sell(3), and every call but the last has returned successfully.
C6_CallOrder ==
  /\ IsPrefix(CallKinds, ExpectedCalls)
  /\ \A i \in 1..(Len(calls) - 1) : calls[i].ok
  /\ (pc = "invoke_sell" => Len(calls) = 2 * index + 1 /\ AllCallsOk)
  /\ (pc = "invoke_buy" => Len(calls) = 2 * index /\ AllCallsOk)

C6_Witness ==
  /\ Running
  /\ Len(calls) = 5
  /\ ~calls[5].ok

\* C7: a batch returns success only after eight successful calls, the buy
\* and then the sell of each leg in submission order.
C7_SuccessMeansEight ==
  (Running /\ result = "Ok") =>
    /\ Len(calls) = 2 * NumLegs
    /\ AllCallsOk
    /\ CallKinds = ExpectedCalls

C7_Witness ==
  /\ Running
  /\ result = "Ok"
  /\ Len(calls) = 2 * NumLegs

\* The categories of the not-found errors of MyErrorCode: a token account, a
\* mint account, a PDA account, any other required account.
SlotCategory(slot) ==
  CASE slot = "user_token_account" -> "token"
    [] slot = "mint_account" -> "mint"
    [] slot \in {"global_account", "bonding_curve_account",
                 "event_authority_account"} -> "pda"
    [] slot \in {"pump_program_account", "fee_recipient_account",
                 "associated_bonding_curve_account"} -> "required"

CategoryError(category) ==
  CASE category = "token" -> "TokenAccountNotFound"
    [] category = "mint" -> "MintAccountNotFound"
    [] category = "pda" -> "PDAAccountNotFound"
    [] category = "required" -> "AccountNotFound"

\* Leg k is on the supported venue, its sub-range lies within the pool and
\* lacks the given slot and no other.
LacksOnly(k, slot) ==
  /\ Leg(k).buy_dex = PumpFun
  /\ InPool(k)
  /\ MissingSlots(SubRange(k), Leg(k).token_mint, signer) = {slot}

\* C8: when the sub-range of a leg on the supported venue lacks exactly one
\* required slot, the batch does not succeed, no call of that leg or of a
\* later leg is issued, and the batch returning at that leg returns the
\* not-found error of the slot's category.
C8_MissingSlotError ==
  (Running /\ ~router_state.is_paused) =>
    \A k \in Legs :
      (Leg(k).buy_dex = PumpFun /\ InPool(k)) =>
        LET missing == MissingSlots(SubRange(k), Leg(k).token_mint, signer)
        IN  \A slot \in Slots :
              missing = {slot} =>
                /\ result # "Ok"
                /\ index <= k
                /\ \A i \in 1..Len(calls) : calls[i].leg < k
                /\ (index = k => pc \in {"leg", "returned"})
                /\ (index = k /\ pc = "returned" =>
                      result = CategoryError(SlotCategory(slot)))

C8_Witness ==
  /\ Running
  /\ pc = "returned"
  /\ index = 2
  /\ LacksOnly(2, "bonding_curve_account")
  /\ result = "PDAAccountNotFound"
  /\ Len(calls) = 4

\* The handles without those that qualify for the slot.
OmitSlot(handles, slot, token_mint, user_key) ==
  SelectSeq(handles, LAMBDA a : ~Qualifies(a, slot, token_mint, user_key))

\* The error of the current leg were the slot omitted from its sub-range.
OmitError(slot) ==
  BuildBuyInstruction(
    OmitSlot(SubRange(index), slot, Leg(index).token_mint, signer),
    Leg(index), signer).err

\* The pairs of a slot and the error of the current leg with it omitted.
OmitErrors == {<<slot, OmitError(slot)>> : slot \in Slots}

\* The current leg's sub-range holds every required account.
Resolved == Running /\ pc = "invoke_buy"

\* C9 as stated: omitting one required slot or another from a fully
\* populated sub-range yields two different error codes.
C9_Original ==
  Resolved =>
    LET codes == OmitErrors
    IN  \A c1 \in codes : \A c2 \in codes : c1[1] # c2[1] => c1[2] # c2[2]

\* C9 amended: the code returned for an omitted slot is that of the slot's
\* category, so that omitting one slot or another yields different codes
\* exactly when the slots are of different categories.
C9_CodePerCategory ==
  Resolved =>
    LET codes == OmitErrors
        handles == SubRange(index)
    IN  /\ \A slot \in Slots :
             MissingSlots(OmitSlot(handles, slot, Leg(index).token_mint, signer),
                          Leg(index).token_mint, signer) = {slot}
        /\ \A c \in codes : c[2] = CategoryError(SlotCategory(c[1]))
        /\ \A c1 \in codes : \A c2 \in codes :
             (c1[2] = c2[2]) <=> (SlotCategory(c1[1]) = SlotCategory(c2[1]))

C9_Witness ==
  /\ Resolved
  /\ index = 1
  /\ OmitError("pump_program_account") = "AccountNotFound"
  /\ OmitError("fee_recipient_account") = "AccountNotFound"
  /\ OmitError("mint_account") = "MintAccountNotFound"

\* The pool with the handles at positions i and j of leg k's sub-range
\* exchanged (positions counted from 1 within the sub-range).
Exchanged(k, i, j) ==
  [n \in 1..Len(remaining_accounts) |->
     IF n = CountSum(k) + i THEN remaining_accounts[CountSum(k) + j]
     ELSE IF n = CountSum(k) + j THEN remaining_accounts[CountSum(k) + i]
     ELSE remaining_accounts[n]]

\* What the resolution of leg k yields on a pool: the error, the account
\* resolved for every slot, and the two instructions.
LegResult(pool, k) ==
  LET handles == Slice(pool, CountSum(k), CountSum(k + 1))
      built == BuildLeg(pool, CountSum(k), Leg(k), signer)
  IN  [err |-> built.err,
       resolved |-> IF Leg(k).buy_dex = PumpFun
                      THEN ResolvePumpFun(handles, Leg(k), signer)
                      ELSE [err |-> "InvalidDexType"],
       buy_instruction |-> built.leg.buy_instruction,
       sell_instruction |-> built.leg.sell_instruction]

\* C10: exchanging two handles of the sub-range of the leg about to be
\* processed changes neither the error, nor the account resolved for any
\* slot, nor the buy and sell instructions.
C10_OrderIndependent ==
  (Running /\ pc = "leg" /\ index < NumLegs /\ InPool(index)) =>
    \A i \in 1..Leg(index).accounts_count : \A j \in 1..Leg(index).accounts_count :
      LegResult(Exchanged(index, i, j), index) = LegResult(remaining_accounts, index)

Keys(handles) == {handles[i].key : i \in 1..Len(handles)}

\* The positions of the account list filled by the resolution of the slots:
\* global, fee recipient, mint, bonding curve, associated bonding curve,
\* trader token account, event authority, venue program.
ResolvedPositions == {1, 2, 3, 4, 5, 6, 11, 12}

ResolvedKeys(instruction) ==
  {instruction.accounts[p].pubkey : p \in ResolvedPositions}

\* The handles passed to an invocation before the four context accounts
\* appended to them (trader, system program, token program, rent).
PoolHandles(account_infos) ==
  {account_infos[i] : i \in 1..(Len(account_infos) - 4)}

Handles(k) == {SubRange(k)[i] : i \in 1..Len(SubRange(k))}

\* The instruction and handles of leg k come from leg k's sub-range alone.
FromOwnSubRange(k, instruction, account_infos) ==
  /\ InPool(k)
  /\ ResolvedKeys(instruction) \subseteq Keys(SubRange(k))
  /\ PoolHandles(account_infos) \subseteq Handles(k)

NotFoundErrors ==
  {"AccountNotFound", "PDAAccountNotFound", "MintAccountNotFound",
   "TokenAccountNotFound"}

\* C11: the running offset at leg k is c0 + ... + c(k-1), so that the
\* sub-ranges of the legs are the contiguous, disjoint pool ranges
\* [c0+..+c(k-1), c0+..+ck) in submission order; the accounts of every
\* instruction built or invoked for leg k are resolved from handles of leg
\* k's sub-range, and a slot of leg k is reported missing only when leg k's
\* own sub-range lacks one.
C11_LegSubRanges ==
  (Running /\ ~router_state.is_paused) =>
    /\ index <= NumLegs
    /\ account_offset = CountSum(index)
    /\ \A k \in Legs : CountSum(k) <= CountSum(k + 1)
    /\ \A i \in 1..Len(calls) :
         FromOwnSubRange(calls[i].leg, calls[i].instruction, calls[i].account_infos)
    /\ (pc \in {"invoke_buy", "invoke_sell"} =>
          /\ FromOwnSubRange(index, buy_instruction, buy_accounts)
          /\ FromOwnSubRange(index, sell_instruction, sell_accounts))
    /\ (pc = "returned" /\ result \in NotFoundErrors =>
          /\ InPool(index)
          /\ MissingSlots(SubRange(index), Leg(index).token_mint, signer) # {})

C11_Witness ==
  /\ Running
  /\ pc = "invoke_sell"
  /\ index = 2
  /\ account_offset = 17
  /\ Leg(0).accounts_count = 9
  /\ Len(calls) = 5
  /\ SubRange(2) # RequiredAccounts(Leg(2).token_mint)

\* The sub-range of the leg in process, taken from the running offset, ends
\* beyond the pool.
Overrun ==
  /\ index < NumLegs
  /\ account_offset + Leg(index).accounts_count > Len(remaining_accounts)

\* C12: a leg reached with a running offset o such that o + accounts_count
\* exceeds the pool length makes the batch return InsufficientAccounts with
\* nothing sliced, built or invoked for that leg; the running offset never
\* exceeds the pool length, and a leg whose slice has been taken lies within
\* the pool.
C12_OverrunAborts ==
  (Running /\ ~router_state.is_paused) =>
    /\ account_offset <= Len(remaining_accounts)
    /\ (Overrun =>
          /\ pc \in {"leg", "returned"}
          /\ \A i \in 1..Len(calls) : calls[i].leg < index
          /\ buy_instruction = NoInstruction /\ buy_accounts = <<>>
          /\ sell_instruction = NoInstruction /\ sell_accounts = <<>>
          /\ (pc = "returned" => result = "InsufficientAccounts"))
    /\ (result = "InsufficientAccounts" => Overrun)
    /\ (pc \in {"invoke_buy", "invoke_sell"} \/ result \in NotFoundErrors
          \/ result \in {"InvalidDexType", "ProgramError"} =>
          /\ index < NumLegs
          /\ account_offset + Leg(index).accounts_count <= Len(remaining_accounts))

C12_Witness ==
  /\ Running
  /\ pc = "returned"
  /\ result = "InsufficientAccounts"
  /\ index = 2
  /\ account_offset = 16
  /\ Leg(2).buy_dex = Meteora
  /\ Len(calls) = 4

\* C13: toggle_pause signed by another identity than the recorded owner
\* returns UnauthorizedAccess and leaves owner, is_paused and bump as they
\* were; signed by the owner it succeeds, flips is_paused and changes
\* nothing else of the router state.
C13_TogglePauseOwnerOnly ==
  [][(pc = "idle" /\ op' = "toggle_pause") =>
       IF signer' = router_state.owner
         THEN /\ result' = "Ok"
              /\ router_state'.is_paused = ~router_state.is_paused
              /\ router_state'.owner = router_state.owner
              /\ router_state'.bump = router_state.bump
              /\ router_state'.exists = router_state.exists
         ELSE /\ result' = "UnauthorizedAccess"
              /\ router_state' = router_state]_vars

C13_Witness ==
  /\ op = "toggle_pause"
  /\ result = "UnauthorizedAccess"
  /\ signer # router_state.owner
  /\ router_state.is_paused

\* ------------------------------------------------- the payloads on their own

\* Amounts at the ends and inside of the range of u64: 0, 1, 258, 2^32,
\* 2^63 and 2^64 - 1.
U64Values ==
  {U64Of(0), U64Of(1), U64Of(258), <<0, 0, 1, 0>>, <<0, 0, 0, 32768>>, U64Max}

\* A leg on the supported venue with any of the amounts in its four fields.
EncodeInputs ==
  {[Params(PlainLeg, 1) EXCEPT !.tokens_to_buy = q, !.max_sol_cost = b,
                               !.tokens_to_sell = t, !.min_wsol_out = m] :
     q \in U64Values, b \in U64Values, t \in U64Values, m \in U64Values}

InitEncode ==
  /\ router_state = [exists |-> TRUE, owner |-> Alice, is_paused |-> FALSE,
                     bump |-> RouterBump]
  /\ pc = "encode_buy"
  /\ op = "execute_arbitrage_batch"
  /\ signer = Holder
  /\ arbitrages \in {<<a>> : a \in EncodeInputs}
  /\ remaining_accounts = RequiredAccounts(MintA)
  /\ index = 0
  /\ account_offset = 0
  /\ buy_instruction = NoInstruction
  /\ buy_accounts = <<>>
  /\ sell_instruction = NoInstruction
  /\ sell_accounts = <<>>
  /\ calls = <<>>
  /\ result = "none"

\* The buy instruction of the leg built.
EncodeBuy ==
  /\ pc = "encode_buy"
  /\ buy_instruction' =
       BuildBuyInstruction(remaining_accounts, arbitrages[1], signer).instruction
  /\ pc' = "encode_sell"
  /\ UNCHANGED <<router_state, op, signer, arbitrages, remaining_accounts, index,
                 account_offset, buy_accounts, sell_instruction, sell_accounts,
                 calls, result>>

\* The sell instruction of the leg built.
EncodeSell ==
  /\ pc = "encode_sell"
  /\ sell_instruction' = BuildSellInstruction(arbitrages[1], buy_instruction).instruction
  /\ pc' = "encoded"
  /\ UNCHANGED <<router_state, op, signer, arbitrages, remaining_accounts, index,
                 account_offset, buy_instruction, buy_accounts, sell_accounts,
                 calls, result>>

NextEncode ==
  \/ EncodeBuy
  \/ EncodeSell

SpecEncode == InitEncode /\ [][NextEncode]_vars

\* The u64 of eight bytes read least significant first.
from_le_bytes(bytes) ==
  <<bytes[1] + 256 * bytes[2], bytes[3] + 256 * bytes[4],
    bytes[5] + 256 * bytes[6], bytes[7] + 256 * bytes[8]>>

\* The payload is 24 bytes: the discriminator, then the two fields, each as
\* eight bytes that decode to the field.
Payload(data, discriminator, first, second) ==
  /\ Len(data) = 24
  /\ \A i \in 1..Len(data) : data[i] \in 0..255
  /\ SubSeq(data, 1, 8) = discriminator
  /\ from_le_bytes(SubSeq(data, 9, 16)) = first
  /\ from_le_bytes(SubSeq(data, 17, 24)) = second

\* C14: the buy payload is the 8-byte buy discriminator followed by
\* tokens_to_buy and max_sol_cost, the sell payload the 8-byte sell
\* discriminator followed by tokens_to_sell and min_wsol_out, each field as
\* 8 little-endian bytes from which the field is recovered exactly, for
\* amounts including 0, 1 and 2^64 - 1; the two discriminators differ.
C14_PayloadLayout ==
  /\ buy_discriminator # sell_discriminator
  /\ (pc \in {"encode_sell", "encoded"} =>
        Payload(buy_instruction.data, buy_discriminator,
                arbitrages[1].tokens_to_buy, arbitrages[1].max_sol_cost))
  /\ (pc = "encoded" =>
        Payload(sell_instruction.data, sell_discriminator,
                arbitrages[1].tokens_to_sell, arbitrages[1].min_wsol_out))

C14_Witness ==
  /\ pc = "encoded"
  /\ arbitrages[1].tokens_to_buy = U64Max
  /\ arbitrages[1].max_sol_cost = U64Of(0)
  /\ arbitrages[1].tokens_to_sell = U64Of(1)
  /\ arbitrages[1].min_wsol_out = U64Max
  /\ SubSeq(buy_instruction.data, 9, 24) =
       <<255, 255, 255, 255, 255, 255, 255, 255, 0, 0, 0, 0, 0, 0, 0, 0>>
  /\ SubSeq(sell_instruction.data, 9, 24) =
       <<1, 0, 0, 0, 0, 0, 0, 0, 255, 255, 255, 255, 255, 255, 255, 255>>

\* The handle qualifies for no slot of leg k.
IsUnrelated(a, k) ==
  \A slot \in Slots : ~Qualifies(a, slot, Leg(k).token_mint, signer)

\* The account list references the accounts of leg k in the venue's order:
\* global, fee recipient, mint, bonding curve, associated bonding curve,
\* trader token account, trader as signer, system program, token program,
\* rent, event authority, venue program.
InFixedOrder(accounts, k) ==
  /\ Len(accounts) = 12
  /\ accounts[1].pubkey = expected_global
  /\ accounts[2].pubkey = fee_recipient
  /\ accounts[3].pubkey = Leg(k).token_mint
  /\ accounts[4].pubkey = expected_bonding_curve(Leg(k).token_mint)
  /\ accounts[5].pubkey =
       get_associated_token_address(expected_bonding_curve(Leg(k).token_mint),
                                    Leg(k).token_mint)
  /\ \E a \in Handles(k) :
       /\ Qualifies(a, "user_token_account", Leg(k).token_mint, signer)
       /\ accounts[6].pubkey = a.key
  /\ accounts[7].pubkey = signer /\ accounts[7].is_signer
  /\ accounts[8].pubkey = SystemProgramId
  /\ accounts[9].pubkey = TokenProgramId
  /\ accounts[10].pubkey = RentSysvarId
  /\ accounts[11].pubkey = expected_event_authority
  /\ accounts[12].pubkey = pump_program_id
  /\ \A p \in (1..12) \ {7} : ~accounts[p].is_signer

\* C15: every call issued for a leg whose sub-range holds all required
\* accounts, with unrelated accounts among them in any order, references the
\* accounts in the venue's fixed order, and no unrelated account of the
\* sub-range is in the call's account list or among the handles passed.
C15_UnrelatedIgnored ==
  (Running /\ ~router_state.is_paused) =>
    \A i \in 1..Len(calls) :
      Populated(calls[i].leg) =>
        /\ InFixedOrder(calls[i].instruction.accounts, calls[i].leg)
        /\ \A a \in Handles(calls[i].leg) :
             IsUnrelated(a, calls[i].leg) =>
               /\ \A p \in 1..Len(calls[i].instruction.accounts) :
                    calls[i].instruction.accounts[p].pubkey # a.key
               /\ \A n \in 1..Len(calls[i].account_infos) :
                    calls[i].account_infos[n] # a

\* C16: over any sequence of initialize, toggle_pause and
\* execute_arbitrage_batch by any identities, initialize succeeds only while
\* the router state does not exist, and then records the initializer as
\* owner with is_paused false; it fails without effect once the state
\* exists, so it succeeds at most once; the owner never changes afterwards,
\* and is_paused changes only by a successful toggle_pause of the owner.
C16_RouterStateLifecycle ==
  [][/\ (pc = "idle" /\ op' = "initialize") =>
          IF router_state.exists
            THEN /\ result' # "Ok"
                 /\ router_state' = router_state
            ELSE /\ result' = "Ok"
                 /\ router_state'.exists
                 /\ router_state'.owner = signer'
                 /\ ~router_state'.is_paused
     /\ (router_state.exists =>
           /\ router_state'.exists
           /\ router_state'.owner = router_state.owner)
     /\ (router_state'.exists # router_state.exists =>
           pc = "idle" /\ op' = "initialize")
     /\ (router_state'.is_paused # router_state.is_paused =>
           /\ pc = "idle"
           /\ op' = "toggle_pause"
           /\ signer' = router_state.owner
           /\ result' = "Ok")]_vars

C16_Witness ==
  /\ op = "initialize"
  /\ result = "AccountAlreadyInUse"
  /\ signer # router_state.owner
  /\ router_state.exists
  /\ router_state.is_paused

\* The sell instruction names the program and the accounts of the buy
\* instruction, in the same order and with the same flags, and differs in
\* its data.
Mirrors(sell, buy) ==
  /\ sell.program_id = buy.program_id
  /\ sell.accounts = buy.accounts
  /\ Len(sell.accounts) = 12
  /\ sell.data # buy.data

\* C17: the sell instruction of a leg has the target program and the account
\* list of the leg's buy instruction (same accounts, order, writable and
\* signer flags) and another payload, both as built and as invoked.
C17_SellMirrorsBuy ==
  /\ (pc \in {"invoke_buy", "invoke_sell"} => Mirrors(sell_instruction, buy_instruction))
  /\ \A i \in 1..Len(calls) :
       calls[i].kind = "sell" =>
         /\ i > 1
         /\ calls[i - 1].kind = "buy"
         /\ calls[i - 1].leg = calls[i].leg
         /\ Mirrors(calls[i].instruction, calls[i - 1].instruction)

C17_Witness ==
  /\ Running
  /\ Len(calls) = 4
  /\ calls[4].kind = "sell"
  /\ calls[4].leg = 1
  /\ Leg(1).accounts_count = 9
  /\ calls[4].instruction.accounts[7].is_signer

\* C18: no step of execute_arbitrage_batch, from its entry to its return
\* with success or with an error, changes the router state, and none
\* changes the account pool it was called with.
C18_BatchReadsOnly ==
  [][/\ (op' = "execute_arbitrage_batch" => router_state' = router_state)
     /\ (Running /\ op' = "execute_arbitrage_batch" =>
           remaining_accounts' = remaining_accounts)]_vars

C18_Witness ==
  /\ Running
  /\ pc = "returned"
  /\ result = "PDAAccountNotFound"
  /\ Len(calls) = 6
  /\ router_state.exists
  /\ Len(remaining_accounts) = 31

\* C19: a leg whose buy venue is supported and whose sub-range holds all
\* required accounts, but whose sell venue is unsupported, gets no call:
\* the batch returning at that leg returns InvalidDexType after the calls
\* of the earlier legs only, the buy of that leg not being among them.
C19_BuiltBeforeInvoked ==
  (Running /\ ~router_state.is_paused) =>
    \A k \in Legs :
      (Leg(k).buy_dex = PumpFun /\ Leg(k).sell_dex = Meteora /\ Populated(k)) =>
        /\ index <= k
        /\ \A i \in 1..Len(calls) : calls[i].leg < k
        /\ (index = k =>
              /\ pc \in {"leg", "returned"}
              /\ buy_instruction = NoInstruction
              /\ sell_instruction = NoInstruction)
        /\ (index = k /\ pc = "returned" =>
              /\ result = "InvalidDexType"
              /\ AllCallsOk
              /\ CallKinds = SubSeq(ExpectedCalls, 1, 2 * k))

C19_Witness ==
  /\ Running
  /\ pc = "returned"
  /\ index = 2
  /\ Leg(2).buy_dex = PumpFun
  /\ Leg(2).sell_dex = Meteora
  /\ Populated(2)
  /\ result = "InvalidDexType"
  /\ Len(calls) = 4
  /\ calls[4].leg = 1

\* Every account of the instruction's account list is among the handles.
AllPassed(instruction, account_infos) ==
  /\ Len(instruction.accounts) = 12
  /\ \A p \in 1..Len(instruction.accounts) :
       \E n \in 1..Len(account_infos) :
         account_infos[n].key = instruction.accounts[p].pubkey

\* C20: for every buy or sell call invoked, and for the instructions about
\* to be invoked, each of the twelve accounts the instruction references
\* (the eight resolved ones, the trader, the system program, the token
\* program and rent) is among the account handles passed with it.
C20_ReferencedAccountsPassed ==
  /\ \A i \in 1..Len(calls) : AllPassed(calls[i].instruction, calls[i].account_infos)
  /\ (pc \in {"invoke_buy", "invoke_sell"} =>
        /\ AllPassed(buy_instruction, buy_accounts)
        /\ AllPassed(sell_instruction, sell_accounts))

C20_Witness ==
  /\ Running
  /\ Len(calls) = 2
  /\ calls[2].kind = "sell"
  /\ Leg(0).accounts_count = 9
  /\ Len(calls[2].account_infos) = 12
  /\ Len(calls[1].account_infos) = 12

\* The order in which the slots are checked for a missing account.
SlotOrder ==
  <<"pump_program_account", "global_account", "fee_recipient_account",
    "mint_account", "bonding_curve_account", "user_token_account",
    "event_authority_account", "associated_bonding_curve_account">>

\* The first slot of SlotOrder among the missing ones.
FirstInOrder(missing) ==
  SlotOrder[CHOOSE i \in 1..Len(SlotOrder) :
              /\ SlotOrder[i] \in missing
              /\ \A j \in 1..(i - 1) : SlotOrder[j] \notin missing]

\* The error of leg k by the order of the checks: the sub-range beyond the
\* pool, the buy venue unsupported, the first missing slot, the sell venue
\* unsupported; "none" when no check fails.
ExpectedError(k) ==
  IF ~InPool(k) THEN "InsufficientAccounts"
  ELSE IF Leg(k).buy_dex = Meteora THEN "InvalidDexType"
  ELSE LET missing == MissingSlots(SubRange(k), Leg(k).token_mint, signer)
       IN  IF missing # {} THEN CategoryError(SlotCategory(FirstInOrder(missing)))
           ELSE IF Leg(k).sell_dex = Meteora THEN "InvalidDexType"
           ELSE "none"

\* The pool with the handles of leg k's sub-range in reverse order.
ReversedRange(k) ==
  [n \in 1..Len(remaining_accounts) |->
     IF CountSum(k) < n /\ n <= CountSum(k + 1)
       THEN remaining_accounts[CountSum(k) + CountSum(k + 1) + 1 - n]
       ELSE remaining_accounts[n]]

\* C21: the error a leg fails with before its calls is that of the first
\* failing check in the order InsufficientAccounts, InvalidDexType of the
\* buy venue, the missing slots in the order program, global, fee
\* recipient, mint, bonding curve, trader token account, event authority,
\* associated bonding curve, and InvalidDexType of the sell venue, whatever
\* other checks would fail too; a leg for which a check fails gets no call,
\* and the error is the same with the sub-range in reverse order.
C21_ErrorCheckOrder ==
  (Running /\ ~router_state.is_paused /\ index < NumLegs) =>
    LET expected == ExpectedError(index)
    IN  /\ (pc = "returned" /\ result # "ProgramError" =>
              result = expected /\ expected # "none")
        /\ (pc \in {"invoke_buy", "invoke_sell"} \/ result = "ProgramError" =>
              expected = "none")
        /\ (expected # "none" =>
              /\ pc \in {"leg", "returned"}
              /\ \A i \in 1..Len(calls) : calls[i].leg < index)
        /\ (pc = "returned" /\ InPool(index) /\ result # "ProgramError" =>
              BuildLeg(ReversedRange(index), account_offset, Leg(index), signer).err
                = result)

C21_Witness ==
  /\ Running
  /\ pc = "returned"
  /\ index = 2
  /\ Leg(2).sell_dex = Meteora
  /\ MissingSlots(SubRange(2), Leg(2).token_mint, signer) =
       {"user_token_account", "event_authority_account",
        "associated_bonding_curve_account"}
  /\ result = "TokenAccountNotFound"
  /\ Len(calls) = 4

====
